---------------------------- MODULE Spec2Model ----------------------------
(***************************************************************************)
(* Model of main.py: the admit-card lookup service.                        *)
(*                                                                         *)
(* Text (str) values are sequences of one-character strings, so that       *)
(* strip, replace, split, lower, isdigit and float parsing are computed    *)
(* character by character, as the Python code computes them.               *)
(***************************************************************************)
EXTENDS Integers, Sequences, FiniteSets, TLC

VARIABLES
    pc,               \* position of on_startup / the application
    fileIdx,          \* index into files of the mapping file being loaded
    columns,          \* df.columns of the mapping file being loaded
    col_college,      \* load_excel_mappings: col_college
    col_exam,         \* load_excel_mappings: col_exam
    college_to_exam,  \* global dict college_to_exam
    exam_to_file,     \* global dict exam_to_file
    excelLog,         \* history: the sheet rows read so far
    driveLog,         \* history: the manifest rows read so far
    file_origin,      \* history: exam roll -> index in driveLog of the row stored
    error,            \* the exception that left on_startup, if any
    done,             \* the loaders on_startup has returned from
    visit_count,      \* global visit_count
    visit_file,       \* content of visit_count.json
    visit_start,      \* history: visit_count as load_visit_count returned it
    tpc,              \* per request handler: position in search
    troll,            \* per request handler: query.roll_no
    treg,             \* per request handler: value on the interpreter stack
    resp,             \* per request handler: the response last sent
    nreq              \* history: number of search requests received

vars == <<pc, fileIdx, columns, col_college, col_exam, college_to_exam,
          exam_to_file, excelLog, driveLog, file_origin, error, done,
          visit_count, visit_file, visit_start, tpc, troll, treg, resp, nreq>>

startupVars == <<pc, fileIdx, columns, col_college, col_exam, college_to_exam,
                 exam_to_file, excelLog, driveLog, file_origin, error, done>>

visitVars == <<visit_count, visit_file, visit_start>>

handlerVars == <<tpc, troll, treg, resp, nreq>>

---------------------------------------------------------------------------
(* Bounds of the model *)

MaxLen == 4          \* longest cell of the exhaustive cell alphabet
MaxCols == 3         \* most columns of a mapping sheet
MaxRows == 2         \* most sheet rows read over all mapping files
MaxDriveRows == 2    \* most manifest rows read
MaxThreads == 2      \* most concurrently running request handlers
MaxRequests == 2     \* most search requests received
MaxCleanRows == 1    \* rows read when every cell is tried

---------------------------------------------------------------------------
(* Python values and str methods *)

\* Python None and the float NaN pandas gives an empty cell: neither is a str.
None == <<"None">>
NaN == <<"NaN">>

IsStr(v) == v # None /\ v # NaN

Digits == {"0", "1", "2", "3", "4", "5", "6", "7", "8", "9"}

Whitespace == {" "}

UpperLetters == <<"A","B","C","D","E","F","G","H","I","J","K","L","M",
                  "N","O","P","Q","R","S","T","U","V","W","X","Y","Z">>

LowerLetters == <<"a","b","c","d","e","f","g","h","i","j","k","l","m",
                  "n","o","p","q","r","s","t","u","v","w","x","y","z">>

\* str.lower, one character
LowerChar(c) ==
    IF \E i \in 1..26 : UpperLetters[i] = c
    THEN LowerLetters[CHOOSE i \in 1..26 : UpperLetters[i] = c]
    ELSE c

\* str.lower
Lower(s) == [i \in 1..Len(s) |-> LowerChar(s[i])]

\* sub in s
Contains(s, sub) ==
    \E i \in 1..(Len(s) - Len(sub) + 1) : SubSeq(s, i, i + Len(sub) - 1) = sub

RECURSIVE LStrip(_)
LStrip(s) ==
    IF s # <<>> /\ s[1] \in Whitespace THEN LStrip(Tail(s)) ELSE s

RECURSIVE RStrip(_)
RStrip(s) ==
    IF s # <<>> /\ s[Len(s)] \in Whitespace
    THEN RStrip(SubSeq(s, 1, Len(s) - 1))
    ELSE s

\* str.strip
Strip(s) == RStrip(LStrip(s))

\* str.isdigit
IsDigit(s) == s # <<>> /\ \A i \in 1..Len(s) : s[i] \in Digits

\* s.replace(old, ""): every occurrence of old, left to right, not overlapping
RECURSIVE Remove(_, _)
Remove(s, old) ==
    IF s = <<>> THEN <<>>
    ELSE IF Len(s) >= Len(old) /\ SubSeq(s, 1, Len(old)) = old
         THEN Remove(SubSeq(s, Len(old) + 1, Len(s)), old)
         ELSE <<s[1]>> \o Remove(Tail(s), old)

\* s.split(sep)[0]
RECURSIVE SplitFirst(_, _)
SplitFirst(s, sep) ==
    IF s = <<>> \/ s[1] = sep THEN <<>>
    ELSE <<s[1]>> \o SplitFirst(Tail(s), sep)

\* str(v) of a cell pandas read: the text itself, "nan" for the float NaN
Str(v) == IF v = NaN THEN <<"n", "a", "n">> ELSE v

---------------------------------------------------------------------------
(* float(val) and str(int(...)) on the text of a number in scientific      *)
(* notation.  The value is kept as its decimal digits, never as a machine  *)
(* integer; the rendering is exact where the double is (all strings within *)
(* MaxLen + 1 characters are).                                             *)

DigitValue(c) == CHOOSE n \in 0..9 : <<"0","1","2","3","4","5","6","7","8","9">>[n + 1] = c

RECURSIVE NatValue(_)
NatValue(s) ==
    IF s = <<>> THEN 0
    ELSE 10 * NatValue(SubSeq(s, 1, Len(s) - 1)) + DigitValue(s[Len(s)])

Count(s, c) == Cardinality({i \in 1..Len(s) : s[i] = c})

Unsigned(s) == IF s # <<>> /\ s[1] = "+" THEN Tail(s) ELSE s

\* position of the exponent marker of a float literal, 0 if there is not exactly one
ExpPos(s) ==
    IF Cardinality({i \in 1..Len(s) : LowerChar(s[i]) = "e"}) = 1
    THEN CHOOSE i \in 1..Len(s) : LowerChar(s[i]) = "e"
    ELSE 0

Mantissa(s) == SubSeq(Unsigned(Strip(s)), 1, ExpPos(Unsigned(Strip(s))) - 1)

Exponent(s) ==
    Unsigned(SubSeq(Unsigned(Strip(s)), ExpPos(Unsigned(Strip(s))) + 1,
                    Len(Unsigned(Strip(s)))))

\* float(s) returns (it does not raise ValueError), for s with an exponent marker
FloatParses(s) ==
    /\ ExpPos(Unsigned(Strip(s))) > 0
    /\ IsDigit(Exponent(s))
    /\ \A i \in 1..Len(Mantissa(s)) : Mantissa(s)[i] \in Digits \cup {"."}
    /\ Count(Mantissa(s), ".") <= 1
    /\ \E i \in 1..Len(Mantissa(s)) : Mantissa(s)[i] \in Digits

RECURSIVE StripZeros(_)
StripZeros(s) == IF s # <<>> /\ s[1] = "0" THEN StripZeros(Tail(s)) ELSE s

Zeros(n) == [i \in 1..n |-> "0"]

\* str(int(float(s))) for s that parses
IntOfFloat(s) ==
    LET m == Mantissa(s)
        dot == IF Count(m, ".") = 1 THEN CHOOSE i \in 1..Len(m) : m[i] = "." ELSE Len(m) + 1
        ds == SubSeq(m, 1, dot - 1) \o SubSeq(m, dot + 1, Len(m))
        k == Len(m) - dot
        frac == IF k < 0 THEN 0 ELSE k
        e == NatValue(Exponent(s))
        kept == IF e >= frac
                THEN StripZeros(ds)
                ELSE StripZeros(SubSeq(ds, 1, Len(ds) - (frac - e)))
    IN  IF kept = <<>> THEN <<"0">>
        ELSE IF e >= frac THEN kept \o Zeros(e - frac) ELSE kept

---------------------------------------------------------------------------
(* load_excel_mappings *)

files == << "data/mapping_1sem.xlsx", "data/mapping_3sem.xlsx",
            "data/mapping_5sem.xlsx", "data/mapping_pg.xlsx" >>

\* df.applymap(lambda x: x.strip() if isinstance(x, str) else x)
StripCell(v) == IF IsStr(v) THEN Strip(v) ELSE v

\* df.fillna("")
FillNa(v) == IF v = NaN THEN <<>> ELSE v

clean_num(val) ==
    IF ~IsStr(val) THEN <<>>
    ELSE LET v == Remove(val, <<".", "0">>)
         IN  IF Contains(Lower(v), <<"e", "+">>)
             THEN IF FloatParses(v) THEN IntOfFloat(v) ELSE v
             ELSE v

\* the cell as the row loop sees it: stripped, NaN filled, cleaned
Cell(raw) == clean_num(FillNa(StripCell(raw)))

\* df.columns = [c.strip() for c in df.columns]
StripColumns(hs) == [i \in 1..Len(hs) |-> Strip(hs[i])]

IsCollegeName(col) ==
    Contains(Lower(col), <<"r","o","l","l">>) /\ ~Contains(Lower(col), <<"e","x","a","m">>)

IsExamName(col) == Contains(Lower(col), <<"e","x","a","m">>)

\* the index a loop of assignments leaves in the variable: the last that matches
LastIndex(S) == CHOOSE i \in S : \A j \in S : j <= i

InferCollege(cols) ==
    LET S == {i \in 1..Len(cols) : IsCollegeName(cols[i])}
    IN  IF S = {} THEN None ELSE cols[LastIndex(S)]

InferExam(cols) ==
    LET S == {i \in 1..Len(cols) : IsExamName(cols[i])}
    IN  IF S = {} THEN None ELSE cols[LastIndex(S)]

\* not col: None and the empty name are both falsy
Falsy(col) == col = None \/ col = <<>>

\* d[k] = v on a dict
Put(d, k, v) == [x \in DOMAIN d \cup {k} |-> IF x = k THEN v ELSE d[x]]

EmptyDict == [x \in {} |-> <<>>]

NoError == [type |-> "", file |-> ""]

Raise(type, file) ==
    /\ pc' = "aborted"
    /\ error' = [type |-> type, file |-> file]

\* pd.read_excel(file, dtype=str) on a file that does not exist
ReadExcelMissing ==
    /\ pc = "excel_open"
    /\ Raise("FileNotFoundError", files[fileIdx])
    /\ UNCHANGED <<fileIdx, columns, col_college, col_exam, college_to_exam,
                   exam_to_file, excelLog, driveLog, file_origin, done>>
    /\ UNCHANGED <<visitVars, handlerVars>>

\* a sheet whose header row names no college or no exam column
ReadExcelInvalid(HeaderLists) ==
    /\ pc = "excel_open"
    /\ \E hs \in HeaderLists :
          /\ columns' = StripColumns(hs)
          /\ col_college' = InferCollege(columns')
          /\ col_exam' = InferExam(columns')
          /\ Falsy(col_college') \/ Falsy(col_exam')
    /\ Raise("RuntimeError", files[fileIdx])
    /\ UNCHANGED <<fileIdx, college_to_exam, exam_to_file, excelLog, driveLog,
                   file_origin, done>>
    /\ UNCHANGED <<visitVars, handlerVars>>

\* a sheet read, its columns chosen; the row loop is next
ReadExcel(HeaderLists) ==
    /\ pc = "excel_open"
    /\ \E hs \in HeaderLists :
          /\ columns' = StripColumns(hs)
          /\ col_college' = InferCollege(columns')
          /\ col_exam' = InferExam(columns')
          /\ ~(Falsy(col_college') \/ Falsy(col_exam'))
    /\ pc' = "excel_rows"
    /\ UNCHANGED <<fileIdx, college_to_exam, exam_to_file, excelLog, driveLog,
                   file_origin, error, done>>
    /\ UNCHANGED <<visitVars, handlerVars>>

\* StoreMapping, were the first exam roll of a college roll kept
StoreMappingFirstWins(d, college, exam) ==
    IF IsDigit(college) /\ IsDigit(exam) /\ college \notin DOMAIN d
    THEN Put(d, college, exam)
    ELSE d

\* if college.isdigit() and exam.isdigit(): college_to_exam[college] = exam
StoreMapping(d, college, exam) ==
    IF IsDigit(college) /\ IsDigit(exam) THEN Put(d, college, exam) ELSE d

\* one turn of the row loop; the row's two cells are drawn from Pairs
LoadExcelRow(Pairs, limit) ==
    /\ pc = "excel_rows"
    /\ Len(excelLog) < limit
    /\ \E p \in Pairs :
          /\ college_to_exam' = StoreMapping(college_to_exam, Cell(p[1]), Cell(p[2]))
          /\ excelLog' = Append(excelLog,
                                [file |-> fileIdx, college |-> p[1], exam |-> p[2]])
    /\ UNCHANGED <<pc, fileIdx, columns, col_college, col_exam, exam_to_file,
                   driveLog, file_origin, error, done>>
    /\ UNCHANGED <<visitVars, handlerVars>>

\* the row loop ends; the next file of the list
NextExcelFile ==
    /\ pc = "excel_rows"
    /\ fileIdx < Len(files)
    /\ fileIdx' = fileIdx + 1
    /\ pc' = "excel_open"
    /\ UNCHANGED <<columns, col_college, col_exam, college_to_exam, exam_to_file,
                   excelLog, driveLog, file_origin, error, done>>
    /\ UNCHANGED <<visitVars, handlerVars>>

\* the row loop of the last file ends; load_excel_mappings returns
ReturnExcel ==
    /\ pc = "excel_rows"
    /\ fileIdx = Len(files)
    /\ pc' = "drive_open"
    /\ done' = Append(done, "load_excel_mappings")
    /\ UNCHANGED <<fileIdx, columns, col_college, col_exam, college_to_exam,
                   exam_to_file, excelLog, driveLog, file_origin, error>>
    /\ UNCHANGED <<visitVars, handlerVars>>

---------------------------------------------------------------------------
(* load_drive_index *)

drive_index == "data/drive_index.csv"

hFileName == <<"F","i","l","e"," ","N","a","m","e">>
hFileID == <<"F","i","l","e"," ","I","D">>
hPath == <<"P","a","t","h">>

required == <<hFileName, hFileID, hPath>>

HasRequired(cols) ==
    \A i \in 1..Len(required) : \E j \in 1..Len(cols) : cols[j] = required[i]

\* pd.read_csv on a file that does not exist
ReadCsvMissing ==
    /\ pc = "drive_open"
    /\ Raise("FileNotFoundError", drive_index)
    /\ UNCHANGED <<fileIdx, columns, col_college, col_exam, college_to_exam,
                   exam_to_file, excelLog, driveLog, file_origin, done>>
    /\ UNCHANGED <<visitVars, handlerVars>>

\* a manifest without one of the required columns
ReadCsvInvalid(HeaderLists) ==
    /\ pc = "drive_open"
    /\ \E hs \in HeaderLists : ~HasRequired(StripColumns(hs))
    /\ Raise("RuntimeError", drive_index)
    /\ UNCHANGED <<fileIdx, columns, col_college, col_exam, college_to_exam,
                   exam_to_file, excelLog, driveLog, file_origin, done>>
    /\ UNCHANGED <<visitVars, handlerVars>>

\* a manifest with the required columns; the row loop is next
ReadCsv(HeaderLists) ==
    /\ pc = "drive_open"
    /\ \E hs \in HeaderLists : HasRequired(StripColumns(hs))
    /\ pc' = "drive_rows"
    /\ UNCHANGED <<fileIdx, columns, col_college, col_exam, college_to_exam,
                   exam_to_file, excelLog, driveLog, file_origin, error, done>>
    /\ UNCHANGED <<visitVars, handlerVars>>

\* str(row[...]).strip()
Field(raw) == Strip(Str(raw))

\* the exam roll a file name gives
ExamRollOf(file_name) ==
    IF Contains(file_name, <<"_">>)
    THEN SplitFirst(file_name, "_")
    ELSE SplitFirst(file_name, ".")

FileRecord(row) ==
    [FileName |-> Field(row.name), FileID |-> Field(row.id), Path |-> Field(row.path)]

\* StoreFile, were the exam roll not validated
StoreFileAnyKey(d, exam_roll, rec) == Put(d, exam_roll, rec)

\* if exam_roll.isdigit(): exam_to_file[exam_roll] = {...}
StoreFile(d, exam_roll, rec) ==
    IF IsDigit(exam_roll) THEN Put(d, exam_roll, rec) ELSE d

\* one turn of the row loop; the row is drawn from Rows
LoadCsvRow(Rows) ==
    /\ pc = "drive_rows"
    /\ Len(driveLog) < MaxDriveRows
    /\ \E row \in Rows :
          LET exam_roll == ExamRollOf(Field(row.name)) IN
          /\ exam_to_file' = StoreFile(exam_to_file, exam_roll, FileRecord(row))
          /\ file_origin' = StoreFile(file_origin, exam_roll, Len(driveLog) + 1)
          /\ driveLog' = Append(driveLog, row)
    /\ UNCHANGED <<pc, fileIdx, columns, col_college, col_exam, college_to_exam,
                   excelLog, error, done>>
    /\ UNCHANGED <<visitVars, handlerVars>>

\* StartServing, were an exception of a loader swallowed
StartServingAnyway ==
    /\ pc \in {"drive_rows", "aborted"}
    /\ pc' = "serving"
    /\ UNCHANGED done

\* on_startup returns: the application starts to serve
StartServing ==
    /\ pc = "drive_rows"
    /\ pc' = "serving"
    /\ done' = Append(done, "load_drive_index")

\* the row loop ends; load_drive_index and on_startup return
ReturnCsv ==
    /\ StartServing
    /\ UNCHANGED <<fileIdx, columns, col_college, col_exam, college_to_exam,
                   exam_to_file, excelLog, driveLog, file_origin, error>>
    /\ UNCHANGED <<visitVars, handlerVars>>

---------------------------------------------------------------------------
(* The visitor counter *)

STARTING_COUNT == 3208

\* visit_count.json: absent, not JSON, JSON without "count", or {"count": n}
VisitFiles ==
    { [state |-> "absent", count |-> 0],
      [state |-> "corrupt", count |-> 0],
      [state |-> "nocount", count |-> 0],
      [state |-> "count", count |-> 41] }

load_visit_count(f) == IF f.state = "count" THEN f.count ELSE STARTING_COUNT

---------------------------------------------------------------------------
(* build_result and search *)

NoResp == [status |-> 0]

NotFound(detail) == [status |-> 404, detail |-> detail]

\* build_result, were it to fall back to the roll typed in
build_result_fallback(exam_roll, college_roll) ==
    LET key == IF exam_roll \in DOMAIN exam_to_file \/ college_roll = None
               THEN exam_roll ELSE college_roll
    IN  IF key \notin DOMAIN exam_to_file
        THEN NotFound("Exam Roll not found in drive")
        ELSE [status |-> 200,
              college_roll |-> college_roll,
              exam_roll |-> key,
              file_name |-> exam_to_file[key].FileName,
              path |-> exam_to_file[key].Path,
              drive_view_url |->
                  <<"https://drive.google.com/file/d/">> \o exam_to_file[key].FileID
                      \o <<"/view">>,
              drive_download_url |->
                  <<"https://drive.google.com/uc?export=download&id=">>
                      \o exam_to_file[key].FileID]

build_result(exam_roll, college_roll) ==
    IF exam_roll \notin DOMAIN exam_to_file
    THEN NotFound("Exam Roll not found in drive")
    ELSE [status |-> 200,
          college_roll |-> college_roll,
          exam_roll |-> exam_roll,
          file_name |-> exam_to_file[exam_roll].FileName,
          path |-> exam_to_file[exam_roll].Path,
          drive_view_url |->
              <<"https://drive.google.com/file/d/">> \o exam_to_file[exam_roll].FileID
                  \o <<"/view">>,
          drive_download_url |->
              <<"https://drive.google.com/uc?export=download&id=">>
                  \o exam_to_file[exam_roll].FileID]

\* search, after increment_visit: what it returns or raises for query.roll_no
search_result(roll_no) ==
    LET roll == Strip(roll_no) IN
    IF roll \in DOMAIN college_to_exam
    THEN build_result(college_to_exam[roll], roll)
    ELSE IF roll \in DOMAIN exam_to_file
         THEN build_result(roll, None)
         ELSE NotFound("Roll Number not found")

\* a POST /search arrives and a worker thread takes it
Receive(t, Rolls) ==
    /\ pc = "serving"
    /\ tpc[t] = "idle"
    /\ nreq < MaxRequests
    /\ \E r \in Rolls : troll' = [troll EXCEPT ![t] = r]
    /\ tpc' = [tpc EXCEPT ![t] = "load"]
    /\ resp' = [resp EXCEPT ![t] = NoResp]
    /\ nreq' = nreq + 1
    /\ UNCHANGED <<startupVars, visitVars, treg>>

\* increment_visit: visit_count += 1 reads the global ...
IncLoad(t) ==
    /\ tpc[t] = "load"
    /\ treg' = [treg EXCEPT ![t] = visit_count]
    /\ tpc' = [tpc EXCEPT ![t] = "store"]
    /\ UNCHANGED <<startupVars, visitVars, troll, resp, nreq>>

\* ... and stores the sum
IncStore(t) ==
    /\ tpc[t] = "store"
    /\ visit_count' = treg[t] + 1
    /\ tpc' = [tpc EXCEPT ![t] = "arg"]
    /\ UNCHANGED <<startupVars, visit_file, visit_start, troll, treg, resp, nreq>>

\* save_visit_count(visit_count): the argument is read from the global ...
SaveArg(t) ==
    /\ tpc[t] = "arg"
    /\ treg' = [treg EXCEPT ![t] = visit_count]
    /\ tpc' = [tpc EXCEPT ![t] = "save"]
    /\ UNCHANGED <<startupVars, visitVars, troll, resp, nreq>>

\* ... and written to visit_count.json
SaveWrite(t) ==
    /\ tpc[t] = "save"
    /\ visit_file' = [state |-> "count", count |-> treg[t]]
    /\ tpc' = [tpc EXCEPT ![t] = "lookup"]
    /\ UNCHANGED <<startupVars, visit_count, visit_start, troll, treg, resp, nreq>>

\* the rest of search: the lookup and the response
Lookup(t) ==
    /\ tpc[t] = "lookup"
    /\ resp' = [resp EXCEPT ![t] = search_result(troll[t])]
    /\ tpc' = [tpc EXCEPT ![t] = "idle"]
    /\ UNCHANGED <<startupVars, visitVars, troll, treg, nreq>>

Handler(t, Rolls) ==
    \/ Receive(t, Rolls)
    \/ IncLoad(t)
    \/ IncStore(t)
    \/ SaveArg(t)
    \/ SaveWrite(t)
    \/ Lookup(t)

Threads == 1..MaxThreads

---------------------------------------------------------------------------
(* The inputs *)

\* every text of at most n characters of alphabet
StringsOf(alphabet, n) == UNION { [1..m -> alphabet] : m \in 0..n }

CellAlphabet == {"0", "1", ".", "e", "E", "+", "a", " "}

\* every cell of at most n characters, and the empty cell
AllCells(n) == StringsOf(CellAlphabet, n) \cup {NaN}

\* one cell exhaustive, the other a roll number
CleanPairs(n) ==
    {<<c, <<"1">>>> : c \in AllCells(n)} \cup {<<<<"1">>, c>> : c \in AllCells(n)}

\* college cells that collide after cleaning, exam cells that differ, one of each not a number
RawPairs == { <<"1">>, <<"1", ".", "0">>, <<"a">> } \X { <<"1">>, <<"2">>, <<"a">> }

SmallPairs == { << <<"1">>, <<"2">> >>, << <<"1">>, <<"a">> >>, << <<"a">>, <<"1">> >> }

hRollNo == <<"R","o","l","l"," ","N","o">>
hCollegeRoll == <<"C","o","l","l","e","g","e"," ","R","o","l","l">>
hExamRoll == <<"E","x","a","m"," ","R","o","l","l">>
hExamDate == <<"E","x","a","m"," ","D","a","t","e">>
hEXAM == <<" ","E","X","A","M"," ">>
hName == <<"N","a","m","e">>

HeaderNames == {hRollNo, hCollegeRoll, hExamRoll, hExamDate, hEXAM, hName}

\* header rows of at most MaxCols distinct names
AllHeaderLists ==
    UNION { {hs \in [1..n -> HeaderNames] : \A i, j \in 1..n : i # j => hs[i] # hs[j]}
            : n \in 1..MaxCols }

GoodHeaders == { <<hRollNo, hExamRoll>> }

SmallHeaderLists == { <<hRollNo, hExamRoll>>, <<hName, hExamRoll>> }

CsvHeaderLists ==
    { <<hFileName, hFileID, hPath>>,
      <<<<" ">> \o hFileName, hPath, hFileID \o <<" ">>>>,
      <<hFileName, hPath>>,
      <<Lower(hFileName), hFileID, hPath>> }

GoodCsvHeaders == { <<hFileName, hFileID, hPath>> }

FileNames ==
    { <<"1","_","a">>, <<"1",".","p">>, <<"2","_","a">>, <<"a","_","1">>, NaN }

FileIds == { <<"X">>, <<"Y">>, <<" ">>, NaN }

Paths == { <<"/","p">> }

CsvRows == [name : FileNames, id : FileIds, path : Paths]

SmallCsvRows ==
    { [name |-> <<"1","_","a">>, id |-> <<"X">>, path |-> <<"/","p">>],
      [name |-> <<"2","_","a">>, id |-> <<"Y">>, path |-> <<"/","p">>],
      [name |-> <<"a","_","1">>, id |-> <<"X">>, path |-> <<"/","p">>] }

OneCsvRow == { [name |-> <<"1","_","a">>, id |-> <<"X">>, path |-> <<"/","p">>] }

Rolls == { <<"1">>, <<" ","2"," ">>, <<"a">> }

OneRoll == { <<"1">> }

---------------------------------------------------------------------------
(* The specifications *)

Boot(VisitFileStates) ==
    /\ pc = "excel_open"
    /\ fileIdx = 1
    /\ columns = <<>>
    /\ col_college = None
    /\ col_exam = None
    /\ college_to_exam = EmptyDict
    /\ exam_to_file = EmptyDict
    /\ excelLog = <<>>
    /\ driveLog = <<>>
    /\ file_origin = EmptyDict
    /\ error = NoError
    /\ done = <<>>
    /\ visit_file \in VisitFileStates
    /\ visit_count = load_visit_count(visit_file)
    /\ visit_start = visit_count
    /\ tpc = [t \in Threads |-> "idle"]
    /\ troll = [t \in Threads |-> <<>>]
    /\ treg = [t \in Threads |-> 0]
    /\ resp = [t \in Threads |-> NoResp]
    /\ nreq = 0

\* a first start: no visit_count.json yet
Init == Boot({[state |-> "absent", count |-> 0]})

\* a start with visit_count.json in any state
InitVisit == Boot(VisitFiles)

\* startup, then requests handled one at a time
Next ==
    \/ ReadExcelMissing
    \/ ReadExcelInvalid(SmallHeaderLists)
    \/ ReadExcel(SmallHeaderLists)
    \/ LoadExcelRow(SmallPairs, MaxRows)
    \/ NextExcelFile
    \/ ReturnExcel
    \/ ReadCsvMissing
    \/ ReadCsvInvalid(CsvHeaderLists)
    \/ ReadCsv(CsvHeaderLists)
    \/ LoadCsvRow(SmallCsvRows)
    \/ ReturnCsv
    \/ Handler(1, Rolls)

Spec == Init /\ [][Next]_vars

\* load_excel_mappings alone
NextExcel ==
    \/ ReadExcelMissing
    \/ ReadExcelInvalid(SmallHeaderLists)
    \/ ReadExcel(SmallHeaderLists)
    \/ LoadExcelRow(RawPairs, MaxRows)
    \/ NextExcelFile
    \/ ReturnExcel

SpecExcel == Init /\ [][NextExcel]_vars

\* the column choice alone, over every header row
NextInfer ==
    \/ ReadExcelInvalid(AllHeaderLists)
    \/ ReadExcel(AllHeaderLists)

SpecInfer == Init /\ [][NextInfer]_vars

\* one row of the first sheet, over every cell
NextClean ==
    \/ ReadExcel(GoodHeaders)
    \/ LoadExcelRow(CleanPairs(MaxLen), MaxCleanRows)

SpecClean == Init /\ [][NextClean]_vars

\* load_drive_index, after mapping sheets without rows
NextDrive ==
    \/ ReadExcel(GoodHeaders)
    \/ NextExcelFile
    \/ ReturnExcel
    \/ ReadCsvMissing
    \/ ReadCsvInvalid(CsvHeaderLists)
    \/ ReadCsv(CsvHeaderLists)
    \/ LoadCsvRow(CsvRows)
    \/ ReturnCsv

SpecDrive == Init /\ [][NextDrive]_vars

\* concurrent request handlers, after a startup that loads at most one file record
NextVisit ==
    \/ ReadExcel(GoodHeaders)
    \/ NextExcelFile
    \/ ReturnExcel
    \/ ReadCsv(GoodCsvHeaders)
    \/ LoadCsvRow(OneCsvRow)
    \/ ReturnCsv
    \/ \E t \in Threads : Handler(t, OneRoll)

SpecVisit == InitVisit /\ [][NextVisit]_vars

---------------------------------------------------------------------------
(* The properties *)

OnlyDigits(s) ==
    /\ Len(s) > 0
    /\ \A i \in 1..Len(s) : s[i] \in {"0","1","2","3","4","5","6","7","8","9"}

ViewUrl(id) == <<"https://drive.google.com/file/d/">> \o id \o <<"/view">>

DownloadUrl(id) == <<"https://drive.google.com/uc?export=download&id=">> \o id

Carries(r, college_roll, exam_roll) ==
    /\ r.status = 200
    /\ r.college_roll = college_roll
    /\ r.exam_roll = exam_roll
    /\ r.file_name = exam_to_file[exam_roll].FileName
    /\ r.path = exam_to_file[exam_roll].Path
    /\ r.drive_view_url = ViewUrl(exam_to_file[exam_roll].FileID)
    /\ r.drive_download_url = DownloadUrl(exam_to_file[exam_roll].FileID)

\* C1: every response of search follows the two-stage order: a roll that is a
\* key of college_to_exam is decided by its exam roll alone (the file record
\* of that exam roll, or not found when exam_to_file lacks it, even if the
\* roll itself is a key of exam_to_file); any other roll that is a key of
\* exam_to_file succeeds with no college roll; any other roll is not found.
SearchTwoStage ==
    \A t \in Threads :
        resp[t] # NoResp =>
            LET roll == Strip(troll[t]) IN
            IF roll \in DOMAIN college_to_exam
            THEN IF college_to_exam[roll] \in DOMAIN exam_to_file
                 THEN Carries(resp[t], roll, college_to_exam[roll])
                 ELSE resp[t] = NotFound("Exam Roll not found in drive")
            ELSE IF roll \in DOMAIN exam_to_file
                 THEN Carries(resp[t], None, roll)
                 ELSE resp[t] = NotFound("Roll Number not found")

\* a college roll that is also an exam roll with a file, whose own exam roll has none
SearchTwoStageWitness ==
    \E t \in Threads :
        /\ resp[t] = NotFound("Exam Roll not found in drive")
        /\ Strip(troll[t]) \in DOMAIN college_to_exam
        /\ Strip(troll[t]) \in DOMAIN exam_to_file

FirstRow(k) ==
    CHOOSE i \in 1..Len(driveLog) :
        /\ ExamRollOf(Strip(Str(driveLog[i].name))) = k
        /\ \A j \in 1..(i - 1) : ExamRollOf(Strip(Str(driveLog[j].name))) # k

EmptyText(raw) == raw = NaN \/ Strip(raw) = <<>>

EmptyField(row) == EmptyText(row.name) \/ EmptyText(row.id)

\* C2: after the load, exam_to_file[k] is the file record of the first
\* manifest row that derives k (stated for the exam rolls none of whose rows
\* has an empty file name or file id).
ManifestFirstWins ==
    pc = "serving" =>
        \A k \in DOMAIN exam_to_file :
            (\A i \in 1..Len(driveLog) :
                ExamRollOf(Strip(Str(driveLog[i].name))) = k => ~EmptyField(driveLog[i]))
            => exam_to_file[k] =
                  [FileName |-> Strip(driveLog[FirstRow(k)].name),
                   FileID |-> Strip(driveLog[FirstRow(k)].id),
                   Path |-> Strip(driveLog[FirstRow(k)].path)]

ValidPair(r) == OnlyDigits(Cell(r.college)) /\ OnlyDigits(Cell(r.exam))

PairsOf(k) == {i \in 1..Len(excelLog) : ValidPair(excelLog[i]) /\ Cell(excelLog[i].college) = k}

Max(S) == CHOOSE x \in S : \A y \in S : y <= x

\* C3: the rows are read in file order, then row order, and college_to_exam
\* holds exactly the college rolls of the valid pairs read (both cells all
\* digits once cleaned), each with the exam roll of its last valid pair; a
\* row that is dropped changes nothing.
MappingLastWins ==
    /\ \A i, j \in 1..Len(excelLog) : i < j => excelLog[i].file <= excelLog[j].file
    /\ DOMAIN college_to_exam = {k \in {Cell(excelLog[i].college) : i \in 1..Len(excelLog)} :
                                    PairsOf(k) # {}}
    /\ \A k \in DOMAIN college_to_exam :
          college_to_exam[k] = Cell(excelLog[Max(PairsOf(k))].exam)

\* one college roll with two exam rolls, in two files
MappingLastWinsWitness ==
    /\ pc = "drive_open"
    /\ \E i, j \in 1..Len(excelLog) :
          /\ i < j
          /\ excelLog[i].file < excelLog[j].file
          /\ ValidPair(excelLog[i]) /\ ValidPair(excelLog[j])
          /\ Cell(excelLog[i].college) = Cell(excelLog[j].college)
          /\ Cell(excelLog[i].exam) # Cell(excelLog[j].exam)

\* C4: a mapping file that is absent never aborts startup.
MissingMappingNonFatal ==
    ~(/\ pc = "aborted"
      /\ error.type = "FileNotFoundError"
      /\ \E i \in 1..Len(files) : files[i] = error.file)

Active(t) == tpc[t] # "idle" \/ resp[t] # NoResp

\* C5: a search request is taken or answered only once load_excel_mappings
\* and load_drive_index have both returned without an error, and after an
\* error startup stays aborted with no request taken.
StartupAllOrNothing ==
    /\ (\E t \in Threads : Active(t)) =>
          /\ pc = "serving"
          /\ done = <<"load_excel_mappings", "load_drive_index">>
          /\ error = NoError
    /\ error # NoError => pc = "aborted" /\ nreq = 0 /\ \A t \in Threads : ~Active(t)
    /\ pc = "serving" => done = <<"load_excel_mappings", "load_drive_index">>

\* a request answered from the two tables
StartupAllOrNothingWitness ==
    \E t \in Threads : resp[t].status = 200

HasBoth(col, a, b) == Contains(Lower(col), a) /\ Contains(Lower(col), b)

kwExam == <<"e","x","a","m">>
kwRoll == <<"r","o","l","l">>
kwCollege == <<"c","o","l","l","e","g","e">>

First(cols, S) == IF S = {} THEN None ELSE cols[CHOOSE i \in S : \A j \in S : i <= j]

TargetColumn(cols) ==
    LET strict == {i \in 1..Len(cols) : HasBoth(cols[i], kwExam, kwRoll)}
        relaxed == {i \in 1..Len(cols) : Contains(Lower(cols[i]), kwExam)}
    IN  IF strict # {} THEN First(cols, strict) ELSE First(cols, relaxed)

SourceColumn(cols) ==
    LET strict == {i \in 1..Len(cols) : HasBoth(cols[i], kwCollege, kwRoll)}
        relaxed == {i \in 1..Len(cols) :
                       Contains(Lower(cols[i]), kwRoll) /\ cols[i] # TargetColumn(cols)}
    IN  IF strict # {} THEN First(cols, strict) ELSE First(cols, relaxed)

\* C7: the exam column chosen is the first header with "exam" and "roll",
\* else the first with "exam"; the college column is the first header with
\* "college" and "roll", else the first with "roll" that is not the exam
\* column; the load fails exactly when one of them is not found.
ColumnsFirstMatch ==
    pc \in {"excel_rows", "aborted"} =>
        IF TargetColumn(columns) = None \/ SourceColumn(columns) = None
        THEN pc = "aborted"
        ELSE /\ pc = "excel_rows"
             /\ col_exam = TargetColumn(columns)
             /\ col_college = SourceColumn(columns)

\* C8: after the load no entry of exam_to_file comes from a manifest row
\* whose file name or file id is empty.
EmptyRowsSkipped ==
    pc = "serving" =>
        \A k \in DOMAIN exam_to_file : ~EmptyField(driveLog[file_origin[k]])

NotScientific(raw) == raw = NaN \/ ~Contains(Lower(raw), <<"e">>)

\* remove one trailing ".0", then accept digits only
TrailingOnly(raw) ==
    LET v == IF raw = NaN THEN <<>> ELSE Strip(raw)
        w == IF Len(v) >= 2 /\ SubSeq(v, Len(v) - 1, Len(v)) = <<".", "0">>
             THEN SubSeq(v, 1, Len(v) - 2) ELSE v
    IN  IF OnlyDigits(w) THEN w ELSE None

\* C9: for cells not in scientific notation, only a trailing ".0" is removed:
\* the pair of a row is stored, as the digits left, when both cells are
\* digits with at most that suffix, and no pair is stored for any other row.
TrailingSuffixOnly ==
    \A i \in 1..Len(excelLog) :
        (Len(excelLog) = 1 /\ NotScientific(excelLog[i].college)
                           /\ NotScientific(excelLog[i].exam)) =>
            IF TrailingOnly(excelLog[i].college) # None /\ TrailingOnly(excelLog[i].exam) # None
            THEN college_to_exam =
                    Put(EmptyDict, TrailingOnly(excelLog[i].college),
                        TrailingOnly(excelLog[i].exam))
            ELSE college_to_exam = EmptyDict

\* C10: once every request received has been answered, visit_count and the
\* count in visit_count.json are the startup value plus the number of requests.
NoVisitLost ==
    (nreq > 0 /\ \A t \in Threads : tpc[t] = "idle") =>
        /\ visit_count = visit_start + nreq
        /\ visit_file = [state |-> "count", count |-> visit_start + nreq]

===========================================================================
